---- MODULE Spec2Model ----
(***************************************************************************)
(* Blogicum (blog/views.py, blog/urls.py): the request handlers of the     *)
(* blog application as a state machine over the entity store.              *)
(*                                                                         *)
(* The store holds posts and comments (auto-increment primary keys), the   *)
(* profile field of each user and the clock; every view is one action that *)
(* maps (store, request) to (store', response).  Each view is written as   *)
(* an operator returning the new store and the response, and the action    *)
(* applies it.  Framework calls (get_object_or_404, Paginator, the login   *)
(* mixin and decorator, the generic views) are modelled by what they do.   *)
(***************************************************************************)
EXTENDS Integers, Sequences, FiniteSets

VARIABLES posts, postSeq, comments, commentSeq, users, now, request,
          response, objectList, pageParam

vars == <<posts, postSeq, comments, commentSeq, users, now, request,
          response, objectList, pageParam>>

store == <<posts, postSeq, comments, commentSeq, users>>

(***************************************************************************)
(* Bounds of the model.                                                    *)
(***************************************************************************)
\* primary keys the Post sequence may hand out
MaxPosts == 1
\* primary keys the Comment sequence may hand out
MaxComments == 1
\* the clock runs over 0..MaxTime
MaxTime == 1
\* length of the object lists handed to the paginator on its own
MaxItems == 7

\* settings.POSTS_PAGE: the page size shared by all listings (set in the
\* project's settings; taken small to keep the object lists short)
POSTS_PAGE == 2

\* posts drawn for the listing views on their own: enough for a second page
ListedPosts == POSTS_PAGE + 1

(***************************************************************************)
(* Input sets.                                                             *)
(***************************************************************************)
Users == {"alice", "bob"}
\* request.user of a request without a session: AnonymousUser, username ''
AnonymousUser == "anonymous"
Actors == Users \cup {AnonymousUser}
\* a username no User row has
UnknownName == "ghost"
Names == Users \cup {UnknownName}

\* Category rows (admin-managed): one published, one not; a post may have none
Categories == {"travel", "hidden"}
NoCategory == "none"
Category_is_published(c) == c = "travel"
\* a slug no Category row has
UnknownSlug == "nowhere"
Slugs == Categories \cup {UnknownSlug}

Times == 0..MaxTime
Texts == {"a", "b"}
FirstNames == {"x", "y"}
Methods == {"GET", "POST"}

\* primary keys a URL may name: those of the sequence and one beyond
PostPks == 1..(MaxPosts + 1)
CommentPks == 1..(MaxComments + 1)

(***************************************************************************)
(* request.user.is_authenticated                                           *)
(***************************************************************************)
is_authenticated(user) == user # AnonymousUser

\* request.user.username: '' for AnonymousUser
username(user) == IF user = AnonymousUser THEN "" ELSE user

(***************************************************************************)
(* Responses.                                                              *)
(***************************************************************************)
NoPage == [number |-> 0, num_pages |-> 0, object_list |-> <<>>]

\* render(request, template, context): pk is the object shown, name the
\* profile shown, page the page_obj of a listing
Render(template, pk, name, page) ==
    [status |-> 200, template |-> template, to |-> "", pk |-> pk,
     name |-> name, page |-> page]

\* redirect(to, ...)
Redirect(to, pk, name) ==
    [status |-> 302, template |-> "", to |-> to, pk |-> pk, name |-> name,
     page |-> NoPage]

\* Http404 raised by get_object_or_404 or a generic view: pages.views.handler404
NotFound ==
    [status |-> 404, template |-> "pages/404.html", to |-> "", pk |-> 0,
     name |-> "", page |-> NoPage]

\* an uncaught exception: pages.views.handler500
ServerError ==
    [status |-> 500, template |-> "pages/500.html", to |-> "", pk |-> 0,
     name |-> "", page |-> NoPage]

\* LoginRequiredMixin.handle_no_permission / login_required / redirect('login')
RedirectToLogin == Redirect("login", 0, "")

NoResponse ==
    [status |-> 0, template |-> "", to |-> "", pk |-> 0, name |-> "",
     page |-> NoPage]

(***************************************************************************)
(* django.core.paginator.Paginator over a sequence.                        *)
(***************************************************************************)
\* the page query parameter: absent, a non-numeric text, 'last', or a number
PageInts == ((0 - 2)..((MaxItems \div POSTS_PAGE) + 2)) \cup {9999}
PageParams ==
    {[kind |-> "absent", n |-> 0], [kind |-> "text", n |-> 0],
     [kind |-> "last", n |-> 0]} \cup {[kind |-> "int", n |-> k] : k \in PageInts}

\* the page parameters the application's listings are asked for
ListingParams ==
    {[kind |-> "absent", n |-> 0], [kind |-> "text", n |-> 0],
     [kind |-> "last", n |-> 0]} \cup {[kind |-> "int", n |-> k] : k \in 0..3}

\* Paginator.num_pages with orphans = 0 and allow_empty_first_page = True:
\* ceil(max(1, count) / per_page)
Paginator_num_pages(object_list, per_page) ==
    LET hits == IF Len(object_list) > 1 THEN Len(object_list) ELSE 1
    IN  (hits + per_page - 1) \div per_page

\* Paginator.page(number) for a validated number: the slice [bottom:top]
Paginator_page(object_list, per_page, number) ==
    LET bottom == (number - 1) * per_page
        top == IF bottom + per_page >= Len(object_list)
               THEN Len(object_list) ELSE bottom + per_page
    IN  [number |-> number,
         num_pages |-> Paginator_num_pages(object_list, per_page),
         object_list |-> SubSeq(object_list, bottom + 1, top)]

\* Paginator.validate_number: "PageNotAnInteger", "EmptyPage" or "ok"
Paginator_validate_number(object_list, per_page, param) ==
    IF param.kind # "int" THEN "PageNotAnInteger"
    ELSE IF param.n < 1 THEN "EmptyPage"
    ELSE IF param.n > Paginator_num_pages(object_list, per_page)
         THEN "EmptyPage"
    ELSE "ok"

\* Paginator.get_page: PageNotAnInteger -> page 1, EmptyPage -> the last page
Paginator_get_page(object_list, per_page, param) ==
    LET v == Paginator_validate_number(object_list, per_page, param)
        number == IF v = "PageNotAnInteger" THEN 1
                  ELSE IF v = "EmptyPage"
                       THEN Paginator_num_pages(object_list, per_page)
                  ELSE param.n
    IN  Paginator_page(object_list, per_page, number)

\* a get_paginated_posts that serves the first page for every page number
\* that is not a page of the list
get_paginated_posts_first(object_list, param) ==
    LET v == Paginator_validate_number(object_list, POSTS_PAGE, param)
    IN  Paginator_page(object_list, POSTS_PAGE, IF v = "ok" THEN param.n ELSE 1)

\* get_paginated_posts(posts, page_number)
get_paginated_posts(object_list, param) ==
    Paginator_get_page(object_list, POSTS_PAGE, param)

\* MultipleObjectMixin.paginate_queryset (ListView with paginate_by): an
\* absent page is 1, 'last' is the last page, anything else that is not a
\* valid page number raises Http404; NoPage stands for the Http404
ListView_paginate_queryset(object_list, per_page, param) ==
    LET last == Paginator_num_pages(object_list, per_page)
    IN  IF param.kind = "absent" THEN Paginator_page(object_list, per_page, 1)
        ELSE IF param.kind = "last"
             THEN Paginator_page(object_list, per_page, last)
        ELSE IF param.kind = "text" THEN NoPage
        ELSE IF param.n < 1 \/ param.n > last THEN NoPage
        ELSE Paginator_page(object_list, per_page, param.n)

(***************************************************************************)
(* The entity store.  posts and comments map the primary keys of the live  *)
(* rows to the rows; postSeq and commentSeq are the last keys handed out   *)
(* (AutoField: a deleted key is not used again).                           *)
(***************************************************************************)
NoUser == ""

\* Post(): the instance a CreateView hands to its form
BlankPost ==
    [author |-> NoUser, is_published |-> FALSE, pub_date |-> 0,
     category |-> NoCategory]

\* the outcome of a view: the store it leaves and the response it returns
Result(p, ps, c, cs, u, r) ==
    [posts |-> p, postSeq |-> ps, comments |-> c, commentSeq |-> cs,
     users |-> u, response |-> r]

\* a view that returns without writing
Respond(r) == Result(posts, postSeq, comments, commentSeq, users, r)

\* the row pk -> row added to, or replaced in, a table
Save(table, pk, row) ==
    [k \in (DOMAIN table) \cup {pk} |-> IF k = pk THEN row ELSE table[k]]

\* the table without row pk
Delete(table, pk) == [k \in (DOMAIN table) \ {pk} |-> table[k]]

\* a table with no rows
EmptyTable == [k \in {} |-> 0]

(***************************************************************************)
(* Forms (blog/forms.py).  A submitted form is the POST data: the fields   *)
(* the client sent, among them an author field the client may forge, and   *)
(* valid, the outcome of is_valid() on them.  An unbound form (a GET, or   *)
(* `request.POST or None` of an empty POST) is not valid.                  *)
(***************************************************************************)
\* PostForm.Meta: the fields the form writes to the instance (not author)
PostForm_fields == {"is_published", "pub_date", "category"}

\* CommentForm.Meta.fields
CommentForm_fields == {"text"}

\* construct_instance(form, instance): the form's fields copied from the data
PostForm_construct(instance, data) ==
    [author |-> IF "author" \in PostForm_fields
                THEN data.author ELSE instance.author,
     is_published |-> IF "is_published" \in PostForm_fields
                      THEN data.is_published ELSE instance.is_published,
     pub_date |-> IF "pub_date" \in PostForm_fields
                  THEN data.pub_date ELSE instance.pub_date,
     category |-> IF "category" \in PostForm_fields
                  THEN data.category ELSE instance.category]

CommentForm_construct(instance, data) ==
    [author |-> IF "author" \in CommentForm_fields
                THEN data.author ELSE instance.author,
     post |-> instance.post,
     text |-> IF "text" \in CommentForm_fields
              THEN data.text ELSE instance.text]

\* Comment(): the instance CommentForm builds when given none
BlankComment == [author |-> NoUser, post |-> 0, text |-> ""]

\* the POST data of a request that carries none
EmptyPostData ==
    [valid |-> FALSE, author |-> NoUser, is_published |-> FALSE,
     pub_date |-> 0, category |-> NoCategory]
EmptyCommentData == [valid |-> FALSE, author |-> NoUser, text |-> ""]
EmptyProfileData == [valid |-> FALSE, first_name |-> ""]

\* valid submissions of the post form
PostData ==
    [valid : {TRUE}, author : Users, is_published : BOOLEAN,
     pub_date : Times, category : Categories \cup {NoCategory}]

\* valid submissions of the post form with the date and category left alone
PlainPostData ==
    [valid : {TRUE}, author : Users, is_published : BOOLEAN,
     pub_date : {0}, category : {NoCategory}]

CommentData == [valid : {TRUE}, author : Users, text : Texts]
ProfileData == [valid : {TRUE}, first_name : FirstNames]

\* the requests a route may get: a GET, an invalid POST, a POST of data d
Requests(D, empty) ==
    {[method |-> "GET", POST |-> empty], [method |-> "POST", POST |-> empty]}
    \cup {[method |-> "POST", POST |-> d] : d \in D}

(***************************************************************************)
(* Model declarations (blog/models.py).                                    *)
(***************************************************************************)
\* Post.Meta.ordering: newest first; rows of one pub_date by primary key
RECURSIVE Post_ordering(_)
Post_ordering(pks) ==
    IF pks = {} THEN <<>>
    ELSE LET first == CHOOSE p \in pks :
                        \A q \in pks :
                            \/ posts[p].pub_date > posts[q].pub_date
                            \/ /\ posts[p].pub_date = posts[q].pub_date
                               /\ p <= q
         IN  <<first>> \o Post_ordering(pks \ {first})

\* Comment.post: ForeignKey(Post, on_delete=CASCADE): the comments left when
\* post pk is deleted
Comment_on_delete(table, pk) ==
    [k \in {c \in DOMAIN table : table[c].post # pk} |-> table[k]]

(***************************************************************************)
(* Ownership checks of the views.                                          *)
(***************************************************************************)
\* a check that lets everybody through
AnyoneIsAuthor(obj, user) == TRUE

\* DispatchMixin.dispatch: `self.get_object().author != request.user`
PostAuthorIs(obj, user) == obj.author = user

\* a check that lets every authenticated user through
AnyUserIsAuthor(instance, user) == is_authenticated(user)

\* edit_comment, delete_comment: `instance.author != request.user`
CommentAuthorIs(instance, user) == instance.author = user

(***************************************************************************)
(* Views on posts.                                                         *)
(***************************************************************************)
\* PostDetailView.get_object: the queryset is built from
\* Q(is_published=True) | Q(author=request.user).  The author lookup
\* prepares its value as a primary key; an AnonymousUser is no User row and
\* has none, so building the filter raises TypeError before any row is
\* looked up.  "TypeError" stands for that exception.
PostDetailView_get_object(user, pk) ==
    IF ~is_authenticated(user) THEN "TypeError"
    ELSE IF /\ pk \in DOMAIN posts
            /\ (posts[pk].is_published \/ posts[pk].author = user)
         THEN "found"
    ELSE "Http404"

\* PostDetailView: GET posts/<pk>/
PostDetailView(user, pk) ==
    LET obj == PostDetailView_get_object(user, pk)
    IN  IF obj = "TypeError" THEN Respond(ServerError)
        ELSE IF obj = "Http404" THEN Respond(NotFound)
        ELSE Respond(Render("blog/detail.html", pk, "", NoPage))

\* a form_valid that takes the author from the submitted data
PostCreateView_form_valid_submitted(user, data) ==
    PostForm_construct([BlankPost EXCEPT !.author = data.author], data)

\* PostCreateView.form_valid: form.instance.author = self.request.user
PostCreateView_form_valid(user, data) ==
    [PostForm_construct(BlankPost, data) EXCEPT !.author = user]

\* PostCreateView: GET/POST posts/create/
PostCreateView(user, req) ==
    IF ~is_authenticated(user) THEN Respond(RedirectToLogin)
    ELSE IF req.method = "POST" /\ req.POST.valid
         THEN Result(Save(posts, postSeq + 1,
                          PostCreateView_form_valid(user, req.POST)),
                     postSeq + 1, comments, commentSeq, users,
                     Redirect("profile", 0, username(user)))
    ELSE Respond(Render("blog/create.html", 0, "", NoPage))

\* PostUpdateView: GET/POST posts/<pk>/edit/
PostUpdateView(user, pk, req) ==
    IF ~is_authenticated(user) THEN Respond(RedirectToLogin)
    ELSE IF pk \notin DOMAIN posts THEN Respond(NotFound)
    ELSE IF ~PostAuthorIs(posts[pk], user)
         THEN Respond(Redirect("post_detail", pk, ""))
    ELSE IF req.method = "POST" /\ req.POST.valid
         THEN Result(Save(posts, pk, PostForm_construct(posts[pk], req.POST)),
                     postSeq, comments, commentSeq, users,
                     Redirect("post_detail", pk, ""))
    ELSE Respond(Render("blog/create.html", pk, "", NoPage))

\* PostDeleteView: GET/POST posts/<pk>/delete/
PostDeleteView(user, pk, method) ==
    IF ~is_authenticated(user) THEN Respond(RedirectToLogin)
    ELSE IF pk \notin DOMAIN posts THEN Respond(NotFound)
    ELSE IF ~PostAuthorIs(posts[pk], user)
         THEN Respond(Redirect("post_detail", pk, ""))
    ELSE IF method = "POST"
         THEN Result(Delete(posts, pk), postSeq,
                     Comment_on_delete(comments, pk), commentSeq, users,
                     Redirect("index", 0, ""))
    ELSE Respond(Render("blog/create.html", pk, "", NoPage))

(***************************************************************************)
(* Views on comments.                                                      *)
(***************************************************************************)
\* add_comment: posts/<pk>/comment/ (login_required)
add_comment(user, pk, req) ==
    IF ~is_authenticated(user) THEN Respond(RedirectToLogin)
    ELSE IF pk \notin DOMAIN posts THEN Respond(NotFound)
    ELSE IF req.POST.valid
         THEN Result(posts, postSeq,
                     Save(comments, commentSeq + 1,
                          [CommentForm_construct(BlankComment, req.POST)
                               EXCEPT !.author = user, !.post = pk]),
                     commentSeq + 1, users, Redirect("post_detail", pk, ""))
    ELSE Respond(Redirect("post_detail", pk, ""))

\* get_object_or_404(Comment, id=comment_id, post_id=post_id)
Comment_exists(comment_id, post_id) ==
    /\ comment_id \in DOMAIN comments
    /\ comments[comment_id].post = post_id

\* edit_comment: posts/<post_id>/edit_comment/<comment_id>/ (login_required)
edit_comment(user, comment_id, post_id, req) ==
    IF ~is_authenticated(user) THEN Respond(RedirectToLogin)
    ELSE IF ~Comment_exists(comment_id, post_id) THEN Respond(NotFound)
    ELSE IF ~CommentAuthorIs(comments[comment_id], user)
         THEN Respond(Redirect("post_detail", post_id, ""))
    ELSE IF req.POST.valid
         THEN Result(posts, postSeq,
                     Save(comments, comment_id,
                          CommentForm_construct(comments[comment_id],
                                                req.POST)),
                     commentSeq, users, Redirect("post_detail", post_id, ""))
    ELSE Respond(Render("blog/comment.html", comment_id, "", NoPage))

\* delete_comment: posts/<post_id>/delete_comment/<comment_id> (login_required)
delete_comment(user, comment_id, post_id, method) ==
    IF ~is_authenticated(user) THEN Respond(RedirectToLogin)
    ELSE IF ~Comment_exists(comment_id, post_id) THEN Respond(NotFound)
    ELSE IF ~CommentAuthorIs(comments[comment_id], user)
         THEN Respond(Redirect("post_detail", post_id, ""))
    ELSE IF method = "POST"
         THEN Result(posts, postSeq, Delete(comments, comment_id),
                     commentSeq, users, Redirect("post_detail", post_id, ""))
    ELSE Respond(Render("blog/comment.html", comment_id, "", NoPage))

(***************************************************************************)
(* Views on profiles.                                                      *)
(***************************************************************************)
\* edit_profile: edit_profile/<name> (no login_required: the user row is
\* looked up first, then its username compared with the requester's)
edit_profile(user, name, req) ==
    IF name \notin Users THEN Respond(NotFound)
    ELSE IF name # username(user) THEN Respond(RedirectToLogin)
    ELSE IF req.POST.valid
         THEN Result(posts, postSeq, comments, commentSeq,
                     [users EXCEPT ![name] = req.POST.first_name],
                     Render("blog/user.html", 0, name, NoPage))
    ELSE Respond(Render("blog/user.html", 0, name, NoPage))

\* user.posts.all()
profile_posts(name) == {p \in DOMAIN posts : posts[p].author = name}

\* info_profile: profile/<name>/
info_profile(name, param) ==
    IF name \notin Users THEN Respond(NotFound)
    ELSE Respond(Render("blog/profile.html", 0, name,
                        get_paginated_posts(Post_ordering(profile_posts(name)),
                                            param)))

(***************************************************************************)
(* Listings.                                                               *)
(***************************************************************************)
\* a queryset that leaves out the pub_date filter
PostListView_queryset_any_date ==
    {p \in DOMAIN posts :
        /\ posts[p].is_published
        /\ posts[p].category \in Categories
        /\ Category_is_published(posts[p].category)}

\* a queryset that leaves out the category filter
PostListView_queryset_any_category ==
    {p \in DOMAIN posts :
        /\ posts[p].is_published
        /\ posts[p].pub_date <= now}

\* PostListView.get_queryset: is_published, pub_date <= now and the
\* category's is_published (a join: a post without category has no match)
PostListView_get_queryset ==
    {p \in DOMAIN posts :
        /\ posts[p].is_published
        /\ posts[p].pub_date <= now
        /\ posts[p].category \in Categories
        /\ Category_is_published(posts[p].category)}

\* PostListView: GET / (get_queryset is overridden, so the class's ordering
\* attribute is not applied and the model's ordering stands)
PostListView(param) ==
    LET page == ListView_paginate_queryset(
                    Post_ordering(PostListView_get_queryset), POSTS_PAGE, param)
    IN  IF page = NoPage THEN Respond(NotFound)
        ELSE Respond(Render("blog/index.html", 0, "", page))

\* category.posts.filter(pub_date__lte=current_time, is_published=True)
category_post_list(slug) ==
    {p \in DOMAIN posts :
        /\ posts[p].category = slug
        /\ posts[p].pub_date <= now
        /\ posts[p].is_published}

\* category_posts: category/<category_slug>/
category_posts(slug, param) ==
    IF ~(slug \in Categories /\ Category_is_published(slug))
    THEN Respond(NotFound)
    ELSE Respond(Render("blog/category.html", 0, slug,
                        Paginator_get_page(
                            Post_ordering(category_post_list(slug)),
                            POSTS_PAGE, param)))

(***************************************************************************)
(* Actions: one per route of blog/urls.py, each applying its view to a     *)
(* request drawn from the input sets; Tick is the clock.                   *)
(***************************************************************************)
\* the request handled last: the route's name in blog/urls.py and request.user
Request(view, user) == [view |-> view, user |-> user]

NoRequest == Request("", NoUser)

Apply(view, user, r) ==
    /\ posts' = r.posts
    /\ postSeq' = r.postSeq
    /\ comments' = r.comments
    /\ commentSeq' = r.commentSeq
    /\ users' = r.users
    /\ request' = Request(view, user)
    /\ response' = r.response
    /\ UNCHANGED <<now, objectList, pageParam>>

Index ==
    \E user \in Actors, param \in ListingParams :
        Apply("index", user, PostListView(param))

PostDetail ==
    \E user \in Actors, pk \in PostPks :
        Apply("post_detail", user, PostDetailView(user, pk))

PostCreate(D) ==
    \E user \in Actors, req \in Requests(D, EmptyPostData) :
        /\ postSeq < MaxPosts
        /\ Apply("create_post", user, PostCreateView(user, req))

PostUpdate(D) ==
    \E user \in Actors, pk \in PostPks, req \in Requests(D, EmptyPostData) :
        Apply("edit_post", user, PostUpdateView(user, pk, req))

PostDelete ==
    \E user \in Actors, pk \in PostPks, method \in Methods :
        Apply("delete_post", user, PostDeleteView(user, pk, method))

CategoryPosts ==
    \E user \in Actors, slug \in Slugs, param \in ListingParams :
        Apply("category_posts", user, category_posts(slug, param))

AddComment ==
    \E user \in Actors, pk \in PostPks,
       req \in Requests(CommentData, EmptyCommentData) :
        /\ commentSeq < MaxComments
        /\ Apply("add_comment", user, add_comment(user, pk, req))

EditComment ==
    \E user \in Actors, post_id \in PostPks, comment_id \in CommentPks,
       req \in Requests(CommentData, EmptyCommentData) :
        Apply("edit_comment", user, edit_comment(user, comment_id, post_id, req))

DeleteComment ==
    \E user \in Actors, post_id \in PostPks, comment_id \in CommentPks,
       method \in Methods :
        Apply("delete_comment", user,
              delete_comment(user, comment_id, post_id, method))

InfoProfile ==
    \E user \in Actors, name \in Names, param \in ListingParams :
        Apply("profile", user, info_profile(name, param))

EditProfile ==
    \E user \in Actors, name \in Names,
       req \in Requests(ProfileData, EmptyProfileData) :
        Apply("edit_profile", user, edit_profile(user, name, req))

\* timezone.now() advances
Tick ==
    /\ now < MaxTime
    /\ now' = now + 1
    /\ UNCHANGED <<posts, postSeq, comments, commentSeq, users, request,
                   response, objectList, pageParam>>

\* get_paginated_posts applied to the object list for a page parameter
GetPaginatedPosts ==
    \E param \in PageParams :
        /\ pageParam' = param
        /\ request' = Request("get_paginated_posts", NoUser)
        /\ response' = Render("", 0, "", get_paginated_posts(objectList, param))
        /\ UNCHANGED <<posts, postSeq, comments, commentSeq, users, now,
                       objectList>>

(***************************************************************************)
(* The application: an empty store, every route.                           *)
(***************************************************************************)
EmptyStore ==
    /\ posts = EmptyTable
    /\ postSeq = 0
    /\ comments = EmptyTable
    /\ commentSeq = 0
    /\ users = [u \in Users |-> "x"]

Idle ==
    /\ request = NoRequest
    /\ response = NoResponse
    /\ objectList = <<>>
    /\ pageParam = [kind |-> "absent", n |-> 0]

Init == EmptyStore /\ now = 0 /\ Idle

Next ==
    \/ Index
    \/ PostDetail
    \/ PostCreate(PostData)
    \/ PostUpdate(PostData)
    \/ PostDelete
    \/ CategoryPosts
    \/ AddComment
    \/ EditComment
    \/ DeleteComment
    \/ InfoProfile
    \/ EditProfile
    \/ Tick

Spec == Init /\ [][Next]_vars

(***************************************************************************)
(* The post routes on their own, with every submission of the post form.   *)
(***************************************************************************)
NextPosts ==
    \/ PostDetail
    \/ PostCreate(PostData)
    \/ PostUpdate(PostData)
    \/ PostDelete

SpecPosts == Init /\ [][NextPosts]_vars

(***************************************************************************)
(* The write routes of posts and comments.  The comment views read of a    *)
(* post only its key, so the posts are submitted with the date and the     *)
(* category left alone.                                                    *)
(***************************************************************************)
NextComments ==
    \/ PostDetail
    \/ PostCreate(PlainPostData)
    \/ PostUpdate(PlainPostData)
    \/ PostDelete
    \/ AddComment
    \/ EditComment
    \/ DeleteComment

SpecComments == Init /\ [][NextComments]_vars

(***************************************************************************)
(* Scheduled publication: posts are created published and dated after the  *)
(* moment of their creation, and nothing but the clock changes afterwards. *)
(***************************************************************************)
ScheduledPostData ==
    {d \in PostData : d.is_published /\ d.pub_date > now}

NextSchedule ==
    \/ PostCreate(ScheduledPostData)
    \/ PostDetail
    \/ Index
    \/ Tick

SpecSchedule == Init /\ [][NextSchedule]_vars

(***************************************************************************)
(* The index on its own, over every store of ListedPosts posts.            *)
(***************************************************************************)
ListedRows ==
    [author : {"alice"}, is_published : BOOLEAN, pub_date : Times,
     category : Categories \cup {NoCategory}]

InitListing ==
    /\ posts \in [1..ListedPosts -> ListedRows]
    /\ postSeq = ListedPosts
    /\ comments = EmptyTable
    /\ commentSeq = 0
    /\ users = [u \in Users |-> "x"]
    /\ now = 0
    /\ Idle

NextListing == Index \/ Tick

SpecListing == InitListing /\ [][NextListing]_vars

(***************************************************************************)
(* The paginator on its own, over object lists of up to MaxItems items.    *)
(***************************************************************************)
InitPaginate ==
    /\ EmptyStore
    /\ now = 0
    /\ request = NoRequest
    /\ response = NoResponse
    /\ objectList \in {[i \in 1..n |-> i] : n \in 0..MaxItems}
    /\ pageParam = [kind |-> "absent", n |-> 0]

NextPaginate == GetPaginatedPosts

SpecPaginate == InitPaginate /\ [][NextPaginate]_vars

(***************************************************************************)
(* Properties.                                                             *)
(***************************************************************************)
\* the elements of a sequence
Range(seq) == {seq[i] : i \in 1..Len(seq)}

\* a primary key the Post sequence never hands out
AbsentPk == MaxPosts + 1

PostRequests == Requests(PostData, EmptyPostData)
CommentRequests == Requests(CommentData, EmptyCommentData)
ProfileRequests == Requests(ProfileData, EmptyProfileData)

\* the posts of the index, page after page
IndexPage(k) == PostListView([kind |-> "int", n |-> k]).response.page

RECURSIVE IndexPagesUpTo(_)
IndexPagesUpTo(k) ==
    IF k = 0 THEN <<>> ELSE IndexPagesUpTo(k - 1) \o IndexPage(k).object_list

IndexAll ==
    IndexPagesUpTo(PostListView([kind |-> "absent", n |-> 0]).response.page.num_pages)

\* C1: GET /posts/<pk>/ returns the post iff it is published or the viewer
\* is its authenticated author, and answers not-found in every other case,
\* for every viewer, the anonymous one included.
C1_DetailVisibility ==
    \A viewer \in Actors, pk \in DOMAIN posts :
        LET r == PostDetailView(viewer, pk).response
        IN  IF \/ posts[pk].is_published
               \/ (is_authenticated(viewer) /\ viewer = posts[pk].author)
            THEN r = Render("blog/detail.html", pk, "", NoPage)
            ELSE r = NotFound

\* C2: a request of any method and data to the edit or delete route of a
\* post by an authenticated user who is not its author is answered with a
\* redirect to the post's detail route and leaves the store as it was.
C2_NonOwnerSoftDenied ==
    \A user \in Users, pk \in DOMAIN posts :
        user # posts[pk].author =>
            /\ \A req \in PostRequests :
                   PostUpdateView(user, pk, req)
                       = Respond(Redirect("post_detail", pk, ""))
            /\ \A method \in Methods :
                   PostDeleteView(user, pk, method)
                       = Respond(Redirect("post_detail", pk, ""))

C2_Witness ==
    /\ request.view \in {"edit_post", "delete_post"}
    /\ request.user \in Users
    /\ \E pk \in DOMAIN posts :
           /\ posts[pk].author # request.user
           /\ response = Redirect("post_detail", pk, "")

\* a request to the edit or delete route of comment c of post p by an
\* authenticated user who is not c's author is answered with a redirect to
\* p's detail route and leaves the store as it was
NonAuthorCommentFrame ==
    \A user \in Users, c \in DOMAIN comments :
        user # comments[c].author =>
            /\ \A req \in CommentRequests :
                   edit_comment(user, c, comments[c].post, req)
                       = Respond(Redirect("post_detail", comments[c].post, ""))
            /\ \A method \in Methods :
                   delete_comment(user, c, comments[c].post, method)
                       = Respond(Redirect("post_detail", comments[c].post, ""))

\* comment c is edited or deleted by the step
CommentTouched(c) == c \notin DOMAIN comments' \/ comments'[c] # comments[c]

C4_ScheduledPublication ==
    \A pk \in DOMAIN posts :
        /\ PostDetailView(posts[pk].author, pk).response
               = Render("blog/detail.html", pk, "", NoPage)
        /\ now < posts[pk].pub_date => pk \notin Range(IndexAll)
        /\ ( /\ posts[pk].pub_date <= now
             /\ posts[pk].category \in Categories
             /\ Category_is_published(posts[pk].category) )
               => pk \in Range(IndexAll)

C4_Witness ==
    /\ request.view = "index"
    /\ response.status = 200
    /\ \E pk \in Range(response.page.object_list) :
           /\ posts[pk].pub_date = now
           /\ now > 0

\* C5: every post on every page of every listing (index, category, profile)
\* is published and not dated in the future.
C5_ListingsShowOnlyPublished ==
    LET Listable(pk) == posts[pk].is_published /\ posts[pk].pub_date <= now
    IN  \A param \in ListingParams :
            /\ \A pk \in Range(PostListView(param).response.page.object_list) :
                   Listable(pk)
            /\ \A slug \in Slugs :
                   \A pk \in Range(category_posts(slug, param).response.page.object_list) :
                       Listable(pk)
            /\ \A name \in Names :
                   \A pk \in Range(info_profile(name, param).response.page.object_list) :
                       Listable(pk)

PageServed ==
    LET page == response.page
    IN  /\ response.status = 200
        /\ page.number \in 1..page.num_pages
        /\ pageParam.kind # "int" => page.number = 1
        /\ (pageParam.kind = "int" /\ pageParam.n > page.num_pages)
               => page.number = page.num_pages
        /\ (pageParam.kind = "int" /\ pageParam.n \in 1..page.num_pages)
               => page.number = pageParam.n

C8_ExistenceNotLeaked ==
    \A user \in Actors, pk \in DOMAIN posts :
        (~posts[pk].is_published /\ posts[pk].author # user) =>
            /\ PostDetailView(user, pk).response
                   = PostDetailView(user, AbsentPk).response
            /\ \A req \in PostRequests :
                   PostUpdateView(user, pk, req).response
                       = PostUpdateView(user, AbsentPk, req).response
            /\ \A method \in Methods :
                   PostDeleteView(user, pk, method).response
                       = PostDeleteView(user, AbsentPk, method).response
            /\ \A req \in CommentRequests :
                   add_comment(user, pk, req).response
                       = add_comment(user, AbsentPk, req).response
            /\ \A c \in CommentPks, req \in CommentRequests :
                   edit_comment(user, c, pk, req).response
                       = edit_comment(user, c, AbsentPk, req).response
            /\ \A c \in CommentPks, method \in Methods :
                   delete_comment(user, c, pk, method).response
                       = delete_comment(user, c, AbsentPk, method).response

\* the routes that require authentication
AuthRoutes ==
    {"create_post", "edit_post", "delete_post", "add_comment", "edit_comment",
     "delete_comment", "edit_profile"}

\* C9: every request of an unauthenticated actor to a route that requires
\* authentication is answered with a redirect to the login page and leaves
\* the store as it was.
C9_AnonymousSentToLogin ==
    [][ (request'.user = AnonymousUser /\ request'.view \in AuthRoutes) =>
            /\ response' = RedirectToLogin
            /\ UNCHANGED store ]_vars

====
